---- MODULE Spec2Model ----
(***************************************************************************)
(* A model of the EU climate target pipeline: the cleaning, reshaping,     *)
(* feature, merge and KPI functions of src/src/*.py and the stage sequence *)
(* of src/run_pipeline.py.                                                 *)
(*                                                                         *)
(* A table is [cols |-> set of column labels, rows |-> sequence of rows],  *)
(* a row a function from the table's labels to cells.  Text cells are      *)
(* strings (NoneStr for a missing one); numeric cells are records          *)
(* [k, n, d]: k = "num" the rational n/d, k = "na" the missing marker      *)
(* (NaN / <NA>), k = "txt" text that is no numeral, k = "ntxt" text that   *)
(* is the numeral n/d, k = "inf" the infinity of sign n.  Floating point   *)
(* numbers are modelled by exact rationals.                                *)
(*                                                                         *)
(* Tables live in a heap addressed by references, so that a stage's        *)
(* df.copy() and its in-place assignments are distinguishable.            *)
(***************************************************************************)
EXTENDS Integers, Sequences, FiniteSets, TLC

VARIABLES pc, heap, env, err, outfile

vars == <<pc, heap, env, err, outfile>>

(***************************************************************************)
(* Bounds of the model.                                                    *)
(***************************************************************************)
\* numeric cells of the inputs range over 0..MaxVal
MaxVal == 1

\* the long tables handed to the KPI functions have at most MaxKpiRows rows
MaxKpiRows == 3

\* the tables handed to the merge and to the reshaping functions have at
\* most MaxRows rows
MaxRows == 2

(***************************************************************************)
(* Numeric cells.                                                          *)
(***************************************************************************)
Abs(x) == IF x < 0 THEN -x ELSE x

Sign(x) == IF x < 0 THEN -1 ELSE IF x = 0 THEN 0 ELSE 1

RECURSIVE Gcd(_, _)
Gcd(a, b) == IF b = 0 THEN a ELSE Gcd(b, a % b)

NA == [k |-> "na", n |-> 0, d |-> 1]

Inf(s) == [k |-> "inf", n |-> s, d |-> 1]

\* the rational n/d in lowest terms, d > 0
Rat(n, d) ==
    LET g == Gcd(Abs(n), Abs(d))
    IN  [k |-> "num", n |-> Sign(d) * (n \div g), d |-> Abs(d) \div g]

NumV(n) == [k |-> "num", n |-> n, d |-> 1]

Txt(i) == [k |-> "txt", n |-> i, d |-> 1]

NumTxt(n) == [k |-> "ntxt", n |-> n, d |-> 1]

IsNum(v) == v.k = "num"

IsNA(v) == v.k = "na"

IsInf(v) == v.k = "inf"

\* a coercion that turns what is no number into zero
ToNumericZeroFilled(v) ==
    IF v.k \in {"num", "inf"} THEN v
    ELSE IF v.k = "ntxt" THEN [k |-> "num", n |-> v.n, d |-> v.d]
    ELSE [k |-> "num", n |-> 0, d |-> 1]

\* pd.to_numeric(..., errors="coerce") on one cell
ToNumeric(v) ==
    CASE v.k = "num"  -> v
      [] v.k = "ntxt" -> [k |-> "num", n |-> v.n, d |-> v.d]
      [] v.k = "inf"  -> v
      [] OTHER        -> NA

\* IEEE / pandas elementwise arithmetic: a missing operand gives missing
VAdd(a, b) ==
    CASE IsNA(a) \/ IsNA(b) -> NA
      [] IsInf(a) /\ IsInf(b) -> IF a.n = b.n THEN a ELSE NA
      [] IsInf(a) -> a
      [] IsInf(b) -> b
      [] OTHER -> Rat(a.n * b.d + b.n * a.d, a.d * b.d)

VNeg(a) ==
    CASE IsNA(a)  -> NA
      [] IsInf(a) -> Inf(-a.n)
      [] OTHER    -> Rat(-a.n, a.d)

VSub(a, b) == VAdd(a, VNeg(b))

VMul(a, b) ==
    CASE IsNA(a) \/ IsNA(b) -> NA
      [] IsInf(a) \/ IsInf(b) ->
            IF Sign(a.n) * Sign(b.n) = 0 THEN NA ELSE Inf(Sign(a.n) * Sign(b.n))
      [] OTHER -> Rat(a.n * b.n, a.d * b.d)

\* float division: x/0 is +-inf, 0/0 is NaN, nothing raises
VDiv(a, b) ==
    CASE IsNA(a) \/ IsNA(b) -> NA
      [] IsInf(a) /\ IsInf(b) -> NA
      [] IsInf(a) -> Inf(a.n * (IF b.n < 0 THEN -1 ELSE 1))
      [] IsInf(b) -> NumV(0)
      [] b.n = 0 -> IF a.n = 0 THEN NA ELSE Inf(Sign(a.n))
      [] OTHER -> Rat(a.n * b.d, a.d * b.n)

\* the sum of a sequence of cells as pandas' sum does it (skipna=True,
\* min_count=0): missing cells are skipped, the sum of nothing is 0
RECURSIVE SumSkipNA(_)
SumSkipNA(s) ==
    IF s = <<>> THEN NumV(0)
    ELSE IF IsNA(Head(s)) THEN SumSkipNA(Tail(s))
    ELSE VAdd(Head(s), SumSkipNA(Tail(s)))

RECURSIVE Pow10(_)
Pow10(e) == IF e = 0 THEN 1 ELSE 10 * Pow10(e - 1)

\* the integer nearest to n/d (d > 0), a half going to the even neighbour
RoundHalfEven(n, d) ==
    LET q == n \div d
        r == n % d
    IN  IF 2 * r < d THEN q
        ELSE IF 2 * r > d THEN q + 1
        ELSE IF q % 2 = 0 THEN q ELSE q + 1

\* Series.round(decimals) on one cell
VRound(v, decimals) ==
    IF IsNum(v)
    THEN Rat(RoundHalfEven(v.n * Pow10(decimals), v.d), Pow10(decimals))
    ELSE v

\* .astype("Int64") of a numeric cell; a fractional value cannot be cast
CastFails(v) == IsInf(v) \/ (IsNum(v) /\ v.d # 1)

(***************************************************************************)
(* Text.                                                                   *)
(***************************************************************************)
NoneStr == "<NA>"

Digits == <<"0", "1", "2", "3", "4", "5", "6", "7", "8", "9">>

\* str(y) of a natural number
RECURSIVE Str(_)
Str(y) == IF y < 10 THEN Digits[y + 1] ELSE Str(y \div 10) \o Digits[(y % 10) + 1]

(***************************************************************************)
(* Tables, rows and the heap.                                              *)
(***************************************************************************)
Table(cols, rows) == [cols |-> cols, rows |-> rows]

Range(s) == {s[i] : i \in DOMAIN s}

\* the row r with column c set to v (added when new)
SetCell(r, c, v) == [x \in DOMAIN r \cup {c} |-> IF x = c THEN v ELSE r[x]]

\* the row r without the columns of cs
DropCols(r, cs) == [x \in DOMAIN r \ cs |-> r[x]]

RECURSIVE Flatten(_)
Flatten(ss) == IF ss = <<>> THEN <<>> ELSE Head(ss) \o Flatten(Tail(ss))

(***************************************************************************)
(* Program constants.                                                      *)
(***************************************************************************)
YearStart == 1990

YearEnd == 2023

TargetPct == -55

key_col == "freq,unit,airpol,src_crf,geo\\TIME_PERIOD"

EU_TOTAL == "EU27_2020"

DEFAULT_COUNTRY_MAP ==
    [AT |-> "Austria", BE |-> "Belgium", BG |-> "Bulgaria", CY |-> "Cyprus",
     CZ |-> "Czech Republic", DE |-> "Germany", DK |-> "Denmark",
     EE |-> "Estonia", EL |-> "Greece", ES |-> "Spain", FI |-> "Finland",
     FR |-> "France", HR |-> "Croatia", HU |-> "Hungary", IE |-> "Ireland",
     IT |-> "Italy", LT |-> "Lithuania", LU |-> "Luxembourg", LV |-> "Latvia",
     MT |-> "Malta", NL |-> "Netherlands", PL |-> "Poland", PT |-> "Portugal",
     RO |-> "Romania", SE |-> "Sweden", SI |-> "Slovenia", SK |-> "Slovakia",
     NO |-> "Norway", IS |-> "Iceland",
     EU27_2020 |-> "European Union (EU27)"]

DEFAULT_EU_COUNTRIES ==
    {"Austria", "Belgium", "Bulgaria", "Cyprus", "Czech Republic", "Germany",
     "Denmark", "Estonia", "Greece", "Spain", "Finland", "France", "Croatia",
     "Hungary", "Ireland", "Italy", "Lithuania", "Luxembourg", "Latvia",
     "Malta", "Netherlands", "Poland", "Portugal", "Romania", "Sweden",
     "Slovenia", "Slovakia", "Iceland", "Norway"}

\* the columns the five fields of the key are split into
KeyFields == <<"freq", "unit", "airpol", "src_crf", "geo">>

MetaCols == {"Country Code", "Indicator Name", "Indicator Code"}

\* the columns that hold text; the others hold numeric cells
TextCols ==
    {"freq", "unit", "airpol", "src_crf", "geo", "country", "sector_main",
     "Country Name"} \cup MetaCols

\* the value pandas fills a missing cell of column c with
MissingFor(c) == IF c \in TextCols THEN NoneStr ELSE NA

\* years = [str(y) for y in range(year_start, year_end + 1)]
Years(year_start, year_end) ==
    [i \in 1..(IF year_end < year_start THEN 0 ELSE year_end - year_start + 1)
        |-> Str(year_start + i - 1)]

\* the all-digit labels of the model's universe of column labels
DigitLabels == {Str(y) : y \in (YearStart - 1)..(YearEnd + 1)}

\* str.isdigit() of a column label
IsDigit(c) == c \in DigitLabels

BaseLabels ==
    DigitLabels \cup {key_col, "Country Name"} \cup MetaCols

\* the labels of the universe with the white space they may carry
PaddedForms == {<<l \o b \o r, b>> : l \in {"", " "}, r \in {"", " "}, b \in BaseLabels}

\* str.strip() of a column label
Strip(s) ==
    IF \E p \in PaddedForms : p[1] = s
    THEN (CHOOSE p \in PaddedForms : p[1] = s)[2]
    ELSE s

\* pd.to_numeric(..., errors="coerce") of a column label turned into a cell
LabelToNumeric(s) ==
    IF \E y \in (YearStart - 1)..(YearEnd + 1) : Str(y) = s
    THEN NumV(CHOOSE y \in (YearStart - 1)..(YearEnd + 1) : Str(y) = s)
    ELSE NA

(***************************************************************************)
(* The heap: df.copy(), in-place assignment, return and raise.             *)
(***************************************************************************)
NoErr == [exc |-> "", msg |-> <<>>]

ValueError(msg) == [exc |-> "ValueError", msg |-> msg]

KeyError(msg) == [exc |-> "KeyError", msg |-> msg]

TypeError(msg) == [exc |-> "TypeError", msg |-> msg]

NextRef(h) == Cardinality(DOMAIN h) + 1

\* a copy that returns the very object it is given
CopyAlias(h, r) == [heap |-> h, ref |-> r]

\* df.copy(): a new object with the columns, rows and cells of h[r]
Copy(h, r) == [heap |-> h @@ (NextRef(h) :> h[r]), ref |-> NextRef(h)]

\* an assignment through the reference r (df[c] = ..., df.columns = ...)
Put(h, r, t) == [h EXCEPT ![r] = t]

\* the caller's objects as the callee leaves them; its locals are dropped
Keep(h0, h1) == [x \in DOMAIN h0 |-> h1[x]]

Raise(h0, h1, e) == [heap |-> Keep(h0, h1), ref |-> 0, err |-> e]

\* return of a table built by the callee
ReturnNew(h0, h1, t) ==
    [heap |-> Keep(h0, h1) @@ (NextRef(h0) :> t), ref |-> NextRef(h0), err |-> NoErr]

\* return of the object the callee's reference r points to
ReturnRef(h0, h1, r) ==
    IF r \in DOMAIN h0
    THEN [heap |-> Keep(h0, h1), ref |-> r, err |-> NoErr]
    ELSE ReturnNew(h0, h1, h1[r])

(***************************************************************************)
(* Column-wise helpers on tables.                                          *)
(***************************************************************************)
\* df[c] = vals: column c (new or not) set row by row to the cells of vals
WithColumn(t, c, vals) ==
    Table(t.cols \cup {c}, [i \in 1..Len(t.rows) |-> SetCell(t.rows[i], c, vals[i])])

\* df[cs] = df[cs].apply(pd.to_numeric, errors="coerce")
ToNumericCols(t, cs) ==
    Table(t.cols,
          [i \in 1..Len(t.rows) |->
              [c \in DOMAIN t.rows[i] |->
                  IF c \in cs THEN ToNumeric(t.rows[i][c]) ELSE t.rows[i][c]]])

\* df[mask]: the rows whose cell of the boolean sequence mask is true
RowsWhere(t, mask) ==
    Table(t.cols,
          LET RECURSIVE Pick(_)
              Pick(i) == IF i > Len(t.rows) THEN <<>>
                         ELSE (IF mask[i] THEN <<t.rows[i]>> ELSE <<>>) \o Pick(i + 1)
          IN  Pick(1))

\* df[cs]: the table restricted to the columns of cs
SelectCols(t, cs) ==
    Table(cs, [i \in 1..Len(t.rows) |-> [c \in cs |-> t.rows[i][c]]])

\* df.columns = df.columns.str.strip()
StripColumns(t) ==
    Table({Strip(c) : c \in t.cols},
          [i \in 1..Len(t.rows) |->
              [c \in {Strip(x) : x \in t.cols} |->
                  t.rows[i][CHOOSE x \in t.cols : Strip(x) = c]]])

\* the sequence s without the elements that are not in the set keep
RECURSIVE Only(_, _)
Only(s, keep) ==
    IF s = <<>> THEN <<>>
    ELSE (IF Head(s) \in keep THEN <<Head(s)>> ELSE <<>>) \o Only(Tail(s), keep)

\* [c for c in years if c in df.columns]
PresentYears(t, year_start, year_end) == Only(Years(year_start, year_end), t.cols)

\* df.melt(id_vars, value_vars, var_name, value_name): one row for every
\* value column and input row, the value columns in their order outermost
Melt(t, id_vars, value_vars, var_name, value_name) ==
    Table(id_vars \cup {var_name, value_name},
          Flatten([j \in 1..Len(value_vars) |->
              [i \in 1..Len(t.rows) |->
                  [c \in id_vars \cup {var_name, value_name} |->
                      IF c = var_name THEN value_vars[j]
                      ELSE IF c = value_name THEN t.rows[i][value_vars[j]]
                      ELSE t.rows[i][c]]]]))

\* pd.to_numeric(long[var_name], errors="coerce").astype("Int64") on the
\* column of labels that melt makes
YearColToNumeric(t, var_name) ==
    Table(t.cols,
          [i \in 1..Len(t.rows) |->
              [c \in DOMAIN t.rows[i] |->
                  IF c = var_name THEN LabelToNumeric(t.rows[i][c]) ELSE t.rows[i][c]]])

(***************************************************************************)
(* src/data_cleaning.py                                                    *)
(***************************************************************************)
\* the number of columns of str.split(",", expand=True): the largest number
\* of fields of a row; the key cell is modelled as the sequence of its fields
SplitWidth(t) ==
    IF t.rows = <<>> THEN 0
    ELSE CHOOSE w \in {Len(t.rows[i][key_col]) : i \in 1..Len(t.rows)} :
            \A i \in 1..Len(t.rows) : Len(t.rows[i][key_col]) <= w

\* pd.concat([df.drop(columns=[key_col]), parts], axis=1) with the columns of
\* parts named after KeyFields; a row's absent trailing fields are None
SplitKey(t) ==
    Table((t.cols \ {key_col}) \cup Range(KeyFields),
          [i \in 1..Len(t.rows) |->
              [c \in (t.cols \ {key_col}) \cup Range(KeyFields) |->
                  IF c \in Range(KeyFields)
                  THEN LET j == CHOOSE x \in DOMAIN KeyFields : KeyFields[x] = c
                       IN  IF j <= Len(t.rows[i][key_col])
                           THEN t.rows[i][key_col][j] ELSE NoneStr
                  ELSE t.rows[i][c]]])

\* Series.map(country_map) on one cell
MapCountry(country_map, geo) ==
    IF geo \in DOMAIN country_map THEN country_map[geo] ELSE NoneStr

clean_emissions_raw(h, df_raw, country_map, drop_eu_total) ==
    LET c == Copy(h, df_raw)
    IN  IF key_col \notin c.heap[c.ref].cols
        THEN Raise(h, c.heap,
                   ValueError(<<"Expected column '", key_col, "' in ",
                                "emissions raw", " dataframe.">>))
        ELSE
        LET h1 == Put(c.heap, c.ref, StripColumns(c.heap[c.ref]))
            width == SplitWidth(h1[c.ref])
        IN  IF width # Len(KeyFields)
            THEN Raise(h, h1,
                       ValueError(<<"Length mismatch: Expected axis has ",
                                    Str(width), " elements, new values have ",
                                    Str(Len(KeyFields)), " elements">>))
            ELSE
            LET df1 == SplitKey(h1[c.ref])
                df2 == WithColumn(df1, "country",
                          [i \in 1..Len(df1.rows) |-> MapCountry(country_map, df1.rows[i]["geo"])])
                df3 == IF drop_eu_total
                       THEN RowsWhere(df2, [i \in 1..Len(df2.rows) |-> df2.rows[i]["geo"] # EU_TOTAL])
                       ELSE df2
            IN  ReturnNew(h, h1, df3)

clean_population_raw(h, df_raw, eu_countries) ==
    LET c == Copy(h, df_raw)
        h1 == Put(c.heap, c.ref, StripColumns(c.heap[c.ref]))
        df1 == h1[c.ref]
    IN  IF "Country Name" \notin df1.cols
        THEN Raise(h, h1,
                   ValueError(<<"Expected column '", "Country Name", "' in ",
                                "population", " dataframe.">>))
        ELSE
        LET df2 == RowsWhere(df1, [i \in 1..Len(df1.rows) |->
                                      df1.rows[i]["Country Name"] \in eu_countries])
            df3 == SelectCols(df2, df2.cols \ MetaCols)
            keep_cols == {"Country Name"} \cup Range(PresentYears(df3, 1990, 2023))
            df4 == SelectCols(df3, keep_cols)
            year_cols == {x \in df4.cols : IsDigit(x)}
            df5 == ToNumericCols(df4, year_cols)
        IN  IF \E i \in 1..Len(df5.rows) : \E x \in year_cols : CastFails(df5.rows[i][x])
            THEN Raise(h, h1, TypeError(<<"cannot safely cast non-equivalent float64 to int64">>))
            ELSE ReturnNew(h, h1, df5)

(***************************************************************************)
(* src/feature_engineering.py                                              *)
(***************************************************************************)
\* the cells of row r in the columns cs (a sequence), in that order
CellsOf(r, cs) == [j \in 1..Len(cs) |-> r[cs[j]]]

\* out[available].sum(axis=1)
RowSums(t, available) == [i \in 1..Len(t.rows) |-> SumSkipNA(CellsOf(t.rows[i], available))]

add_total_emissions(h, df, year_start, year_end, out_col) ==
    LET c == Copy(h, df)
        available == PresentYears(c.heap[c.ref], year_start, year_end)
    IN  IF available = <<>>
        THEN Raise(h, c.heap,
                   ValueError(<<"No year columns found to compute total emissions.">>))
        ELSE
        LET h1 == Put(c.heap, c.ref, ToNumericCols(c.heap[c.ref], Range(available)))
            h2 == Put(h1, c.ref, WithColumn(h1[c.ref], out_col, RowSums(h1[c.ref], available)))
        IN  ReturnRef(h, h2, c.ref)

\* a dropna that drops nothing
KeepAll(t, a, b) == [i \in 1..Len(t.rows) |-> TRUE]

\* out.dropna(subset=[a, b]) as a mask: the rows with both cells present
BothPresent(t, a, b) == [i \in 1..Len(t.rows) |-> ~IsNA(t.rows[i][a]) /\ ~IsNA(t.rows[i][b])]

add_difference_between_years(h, df, year_a, year_b, out_col) ==
    LET c == Copy(h, df)
        a == Str(year_a)
        b == Str(year_b)
    IN  IF a \notin c.heap[c.ref].cols \/ b \notin c.heap[c.ref].cols
        THEN Raise(h, c.heap,
                   ValueError(<<"Expected year columns ", a, " and ", b, ".">>))
        ELSE
        LET h1 == Put(c.heap, c.ref, ToNumericCols(c.heap[c.ref], {a}))
            h2 == Put(h1, c.ref, ToNumericCols(h1[c.ref], {b}))
            kept == RowsWhere(h2[c.ref], BothPresent(h2[c.ref], a, b))
        IN  ReturnNew(h, h2,
                      WithColumn(kept, out_col,
                                 [i \in 1..Len(kept.rows) |-> VSub(kept.rows[i][b], kept.rows[i][a])]))

wide_to_long_years(h, df, id_cols, year_start, year_end, value_name, var_name) ==
    LET year_cols == PresentYears(h[df], year_start, year_end)
        c == Copy(h, df)
    IN  IF ~(id_cols \subseteq c.heap[c.ref].cols)
        THEN Raise(h, c.heap, KeyError(<<"id_vars not present in the DataFrame">>))
        ELSE
        LET out_long == Melt(c.heap[c.ref], id_cols, year_cols, var_name, value_name)
            l1 == YearColToNumeric(out_long, var_name)
            l2 == ToNumericCols(l1, {value_name})
        IN  ReturnNew(h, c.heap, l2)

\* the tails a sector code of the model's universe has after its prefix
CrfSuffixes == {"", ".A", "A1", "MEMO", "4_MEMONIA"}

\* code.startswith(prefix)
StartsWith(code, prefix) == \E x \in CrfSuffixes : prefix \o x = code

\* "Resíduos" is written in ASCII
map_sector_main(code) ==
    IF code = NoneStr THEN "Outro"
    ELSE IF StartsWith(code, "CRF1") THEN "Energia"
    ELSE IF StartsWith(code, "CRF2") THEN "Processos Industriais"
    ELSE IF StartsWith(code, "CRF3") THEN "Agricultura"
    ELSE IF StartsWith(code, "CRF4") THEN "Uso do Solo e Florestas (LULUCF)"
    ELSE IF StartsWith(code, "CRF5") THEN "Residuos"
    ELSE IF StartsWith(code, "CRF6") THEN "Outros"
    ELSE IF StartsWith(code, "TOTX") THEN "Memo"
    ELSE "Outro"

add_sector_main(h, df, src_col, out_col) ==
    LET c == Copy(h, df)
        out == c.heap[c.ref]
    IN  IF src_col \notin out.cols
        THEN Raise(h, c.heap, ValueError(<<"Expected column '", src_col, "'.">>))
        ELSE ReturnRef(h,
                       Put(c.heap, c.ref,
                           WithColumn(out, out_col,
                                      [i \in 1..Len(out.rows) |-> map_sector_main(out.rows[i][src_col])])),
                       c.ref)

add_emissions_per_capita(h, df, emissions_col, population_col, out_col) ==
    LET c == Copy(h, df)
        out == c.heap[c.ref]
    IN  IF emissions_col \notin out.cols
        THEN Raise(h, c.heap, KeyError(<<emissions_col>>))
        ELSE IF population_col \notin out.cols
        THEN Raise(h, c.heap, KeyError(<<population_col>>))
        ELSE ReturnRef(h,
                       Put(c.heap, c.ref,
                           WithColumn(out, out_col,
                                      [i \in 1..Len(out.rows) |->
                                          VDiv(out.rows[i][emissions_col], out.rows[i][population_col])])),
                       c.ref)

\* one pass of apply_rounding's loops: the columns of cs that are present are
\* coerced to numbers and rounded to `decimals` places
RoundCols(t, cs, decimals) ==
    Table(t.cols,
          [i \in 1..Len(t.rows) |->
              [c \in DOMAIN t.rows[i] |->
                  IF c \in cs THEN VRound(ToNumeric(t.rows[i][c]), decimals)
                  ELSE t.rows[i][c]]])

apply_rounding(h, df, round_5_cols, percent_cols) ==
    LET c == Copy(h, df)
        h1 == Put(c.heap, c.ref, RoundCols(c.heap[c.ref], round_5_cols, 5))
        h2 == Put(h1, c.ref, RoundCols(h1[c.ref], percent_cols, 0))
    IN  ReturnRef(h, h2, c.ref)

(***************************************************************************)
(* src/merge_data.py                                                       *)
(***************************************************************************)
\* long_df.rename(columns={old: new})
RenameCol(t, old, new) ==
    Table((t.cols \ {old}) \cup {new},
          [i \in 1..Len(t.rows) |->
              [x \in (t.cols \ {old}) \cup {new} |->
                  IF x = new THEN t.rows[i][old] ELSE t.rows[i][x]]])

population_wide_to_long(h, df_population_wide, country_col, year_start, year_end, out_country_col, out_year_col, out_value_col) ==
    LET c == Copy(h, df_population_wide)
        df == c.heap[c.ref]
        year_cols == PresentYears(df, year_start, year_end)
    IN  IF country_col \notin df.cols
        THEN Raise(h, c.heap, KeyError(<<"id_vars not present in the DataFrame">>))
        ELSE
        LET long_df == Melt(df, {country_col}, year_cols, out_year_col, out_value_col)
            l1 == YearColToNumeric(long_df, out_year_col)
            l2 == ToNumericCols(l1, {out_value_col})
        IN  IF \E i \in 1..Len(l2.rows) : CastFails(l2.rows[i][out_value_col])
            THEN Raise(h, c.heap,
                       TypeError(<<"cannot safely cast non-equivalent float64 to int64">>))
            ELSE ReturnNew(h, c.heap, RenameCol(l2, country_col, out_country_col))

\* the label a non-key column c of one side gets in a merge: the suffix is
\* added when the other side has a column of the same name
MergedName(c, other, keys, suffix) ==
    IF c \in other.cols \ keys THEN c \o suffix ELSE c

SameKey(l, r, keys) == \A k \in keys : l[k] = r[k]

\* the rows of the sequence rows whose key is that of row x
Partners(rows, x, keys) ==
    LET RECURSIVE Pick(_)
        Pick(i) == IF i > Len(rows) THEN <<>>
                   ELSE (IF SameKey(rows[i], x, keys) THEN <<rows[i]>> ELSE <<>>) \o Pick(i + 1)
    IN  Pick(1)

\* the merged row of a left row l and a right row r; use_l / use_r say which
\* side is present, the cells of an absent side are missing
JoinRow(L, R, keys, l, r, use_l, use_r) ==
    LET lcols == {MergedName(c, R, keys, "_x") : c \in L.cols \ keys}
        rcols == {MergedName(c, L, keys, "_y") : c \in R.cols \ keys}
    IN  [c \in keys \cup lcols \cup rcols |->
            IF c \in keys THEN (IF use_l THEN l[c] ELSE r[c])
            ELSE IF c \in lcols
            THEN LET x == CHOOSE y \in L.cols \ keys : MergedName(y, R, keys, "_x") = c
                 IN  IF use_l THEN l[x] ELSE MissingFor(x)
            ELSE LET x == CHOOSE y \in R.cols \ keys : MergedName(y, L, keys, "_y") = c
                 IN  IF use_r THEN r[x] ELSE MissingFor(x)]

\* a join that pairs a left row with the first right row of its key only
LeftRowsFirstOnly(L, R, keys, l, keep_unmatched) ==
    LET ms == Partners(R.rows, l, keys)
    IN  IF ms = <<>>
        THEN (IF keep_unmatched THEN <<JoinRow(L, R, keys, l, l, TRUE, FALSE)>> ELSE <<>>)
        ELSE <<JoinRow(L, R, keys, l, ms[1], TRUE, TRUE)>>

\* the rows a left row gives: one for every right row of its key, and with
\* keep_unmatched one with the right side missing when there is none
LeftRows(L, R, keys, l, keep_unmatched) ==
    LET ms == Partners(R.rows, l, keys)
    IN  IF ms = <<>>
        THEN (IF keep_unmatched THEN <<JoinRow(L, R, keys, l, l, TRUE, FALSE)>> ELSE <<>>)
        ELSE [j \in 1..Len(ms) |-> JoinRow(L, R, keys, l, ms[j], TRUE, TRUE)]

\* the rows a right row gives in a right join
RightRows(L, R, keys, r) ==
    LET ms == Partners(L.rows, r, keys)
    IN  IF ms = <<>>
        THEN <<JoinRow(L, R, keys, r, r, FALSE, TRUE)>>
        ELSE [j \in 1..Len(ms) |-> JoinRow(L, R, keys, ms[j], r, TRUE, TRUE)]

\* the right rows no left row has the key of
Lonely(L, R, keys) ==
    LET RECURSIVE Pick(_)
        Pick(i) == IF i > Len(R.rows) THEN <<>>
                   ELSE (IF Partners(L.rows, R.rows[i], keys) = <<>> THEN <<R.rows[i]>> ELSE <<>>)
                        \o Pick(i + 1)
    IN  Pick(1)

\* DataFrame.merge(on=keys, how=how).  The rows of an inner and a left join
\* come in the order of the left rows, those of a right join in the order
\* of the right rows; an outer join is given as the left join followed by
\* the right rows without a partner (pandas orders its keys, an order text
\* cells do not have here).
MergeOn(L, R, keys, how) ==
    LET lcols == {MergedName(c, R, keys, "_x") : c \in L.cols \ keys}
        rcols == {MergedName(c, L, keys, "_y") : c \in R.cols \ keys}
        left == Flatten([i \in 1..Len(L.rows) |->
                    LeftRows(L, R, keys, L.rows[i], how \in {"left", "outer"})])
        lonely == Lonely(L, R, keys)
    IN  Table(keys \cup lcols \cup rcols,
              IF how = "right"
              THEN Flatten([i \in 1..Len(R.rows) |-> RightRows(L, R, keys, R.rows[i])])
              ELSE IF how = "outer"
              THEN left \o [j \in 1..Len(lonely) |->
                               JoinRow(L, R, keys, lonely[j], lonely[j], FALSE, TRUE)]
              ELSE left)

merge_emissions_population_long(h, emissions_long, population_long, how, country_col, year_col) ==
    LET em == Copy(h, emissions_long)
        pop == Copy(em.heap, population_long)
        E == pop.heap[em.ref]
        P == pop.heap[pop.ref]
    IN  IF country_col \notin E.cols \/ year_col \notin E.cols
        THEN Raise(h, pop.heap,
                   ValueError(<<"Emissions", " must contain '", country_col,
                                "' and '", year_col, "'.">>))
        ELSE IF country_col \notin P.cols \/ year_col \notin P.cols
        THEN Raise(h, pop.heap,
                   ValueError(<<"Population", " must contain '", country_col,
                                "' and '", year_col, "'.">>))
        ELSE ReturnNew(h, pop.heap, MergeOn(E, P, {country_col, year_col}, how))

(***************************************************************************)
(* src/calculations.py                                                     *)
(***************************************************************************)
\* the cells of column c of the rows of group g at year y, in row order
CellsAt(t, year_col, y, group_col, g, c) ==
    LET RECURSIVE Pick(_)
        Pick(i) == IF i > Len(t.rows) THEN <<>>
                   ELSE (IF t.rows[i][year_col] = NumV(y) /\ t.rows[i][group_col] = g
                         THEN <<t.rows[i][c]>> ELSE <<>>) \o Pick(i + 1)
    IN  Pick(1)

\* a group sum that is 0, not absent, for a group without a row at year y
GroupSumZeroFilled(t, year_col, y, group_col, emissions_col) ==
    [g \in {t.rows[i][group_col] : i \in {j \in 1..Len(t.rows) : t.rows[j][group_col] # NoneStr}} |->
        SumSkipNA(CellsAt(t, year_col, y, group_col, g, emissions_col))]

\* out[out[year_col] == y].groupby(group_col)[emissions_col].sum(): a
\* function from the groups that have a row at year y to the sum of their
\* cells; rows whose group is missing belong to no group
GroupSum(t, year_col, y, group_col, emissions_col) ==
    [g \in {t.rows[i][group_col] : i \in {j \in 1..Len(t.rows) :
                t.rows[j][year_col] = NumV(y) /\ t.rows[j][group_col] # NoneStr}} |->
        SumSkipNA(CellsAt(t, year_col, y, group_col, g, emissions_col))]

\* a column of pd.concat([a, b], axis=1) at index g
At(series, g) == IF g \in DOMAIN series THEN series[g] ELSE NA

\* a join that gives the value only to the group's rows of the year YearStart
BroadcastOwnYear(t, group_col, kpi, out_col) ==
    WithColumn(t, out_col,
               [i \in 1..Len(t.rows) |->
                   IF t.rows[i][group_col] \in DOMAIN kpi /\ t.rows[i]["year"] = NumV(YearStart)
                   THEN kpi[t.rows[i][group_col]] ELSE NA])

\* out.merge(kpi[[out_col]], left_on=group_col, right_index=True, how="left")
\* for one column of kpi, a function from kpi's index to the column's cells
Broadcast(t, group_col, kpi, out_col) ==
    WithColumn(t, out_col,
               [i \in 1..Len(t.rows) |->
                   IF t.rows[i][group_col] \in DOMAIN kpi
                   THEN kpi[t.rows[i][group_col]] ELSE NA])

KpiColsMissing(t, group_col, year_col, emissions_col) ==
    {group_col, year_col, emissions_col} \ t.cols

add_reduction_percent_actual(h, df, base_year, current_year, group_col, year_col, emissions_col, out_col) ==
    LET c == Copy(h, df)
        out == c.heap[c.ref]
    IN  IF KpiColsMissing(out, group_col, year_col, emissions_col) # {}
        THEN Raise(h, c.heap,
                   KeyError(<<CHOOSE x \in KpiColsMissing(out, group_col, year_col, emissions_col) : TRUE>>))
        ELSE
        LET base == GroupSum(out, year_col, base_year, group_col, emissions_col)
            curr == GroupSum(out, year_col, current_year, group_col, emissions_col)
            kpi == [g \in DOMAIN base \cup DOMAIN curr |->
                      VMul(VDiv(VSub(At(curr, g), At(base, g)), At(base, g)), NumV(100))]
        IN  ReturnNew(h, c.heap, Broadcast(out, group_col, kpi, out_col))

add_target_2030_and_gap(h, df, target_reduction_pct, base_year, group_col, year_col, emissions_col, out_target_col, out_gap_col, compare_year) ==
    LET c == Copy(h, df)
        out == c.heap[c.ref]
    IN  IF KpiColsMissing(out, group_col, year_col, emissions_col) # {}
        THEN Raise(h, c.heap,
                   KeyError(<<CHOOSE x \in KpiColsMissing(out, group_col, year_col, emissions_col) : TRUE>>))
        ELSE
        LET base == GroupSum(out, year_col, base_year, group_col, emissions_col)
            comp == GroupSum(out, year_col, compare_year, group_col, emissions_col)
            index == DOMAIN base \cup DOMAIN comp
            target == [g \in index |->
                          VMul(At(base, g),
                               VAdd(NumV(1), VDiv(NumV(target_reduction_pct), NumV(100))))]
            gap == [g \in index |-> VSub(target[g], At(comp, g))]
        IN  ReturnNew(h, c.heap,
                      Broadcast(Broadcast(out, group_col, target, out_target_col),
                                group_col, gap, out_gap_col))

(***************************************************************************)
(* The inputs of a pipeline run: what pd.read_csv hands to the stages.     *)
(***************************************************************************)
\* the number cells of an input, and the text Eurostat and the World Bank
\* put in a cell without a value
NumCells == {NumV(v) : v \in 0..MaxVal}

RawCells == NumCells \cup {Txt(0)}

\* composite keys: two sectors of Austria, the EU aggregate, a geo code that
\* is not in the country map, a key of four fields and one of six
KeyAT1 == <<"A", "THS_T", "GHG", "CRF1", "AT">>

KeyAT3 == <<"A", "THS_T", "GHG", "CRF3", "AT">>

KeyEU == <<"A", "THS_T", "GHG", "TOTX4_MEMONIA", "EU27_2020">>

KeyUK == <<"A", "THS_T", "GHG", "CRF1", "UK">>

KeyShort == <<"A", "THS_T", "GHG", "CRF1">>

KeyLong == <<"A", "THS_T", "GHG", "CRF1", "AT", "x">>

\* a raw emissions row; the year headers of the file carry a trailing space
EmRow(key, a, b, c) ==
    (key_col :> key) @@ ("1990 " :> a) @@ ("2005 " :> b) @@ ("2023 " :> c)

EmCols == {key_col, "1990 ", "2005 ", "2023 "}

EmRowsOf(keys) == {EmRow(k, a, b, c) : k \in keys, a \in RawCells, b \in RawCells, c \in RawCells}

\* a second row, whose 2005 cell is fixed
EmRowsB(keys) == {EmRow(k, a, NumV(MaxVal), c) : k \in keys, a \in RawCells, c \in RawCells}

EmTables ==
    {Table(EmCols, <<>>)}
    \cup {Table(EmCols, <<r>>) :
            r \in EmRowsOf({KeyAT1, KeyShort}) \cup EmRowsB({KeyEU, KeyUK, KeyLong})}
    \cup {Table(EmCols, <<r1, r2>>) :
            r1 \in EmRowsB({KeyAT1, KeyShort}),
            r2 \in EmRowsB({KeyAT3}) \cup {EmRow(KeyShort, NumV(0), NumV(MaxVal), NumV(0))}}

EmNominal ==
    Table(EmCols, <<EmRow(KeyAT1, NumV(MaxVal), NumV(0), NumV(MaxVal)),
                    EmRow(KeyAT3, NumV(MaxVal), Txt(0), NumV(0))>>)

\* raw emissions tables whose columns a stage rejects: no key column, a key
\* column with white space around it, no year column, no 1990 and 2023
EmBadSchemas ==
    {Table({"geo", "1990 "}, <<("geo" :> "AT") @@ ("1990 " :> NumV(0))>>),
     Table({key_col \o " ", "1990 "}, <<((key_col \o " ") :> KeyAT1) @@ ("1990 " :> NumV(0))>>),
     Table({key_col}, <<(key_col :> KeyAT1)>>),
     Table({key_col, "2005 "}, <<(key_col :> KeyAT1) @@ ("2005 " :> NumV(0))>>),
     Table({key_col, "1990 ", "2005 "},
           <<(key_col :> KeyAT1) @@ ("1990 " :> NumV(0)) @@ ("2005 " :> NumV(0))>>)}

PopCols == {"Country Name", "Country Code", "1989", "1990", "2005", "2023"}

PopRow(name, a, b, c) ==
    ("Country Name" :> name) @@ ("Country Code" :> "AUT") @@ ("1989" :> NumV(0))
    @@ ("1990" :> a) @@ ("2005" :> b) @@ ("2023" :> c)

PopCells == NumCells \cup {Txt(0), NA}

PopRowsOf(names) == {PopRow(m, a, b, c) : m \in names, a \in PopCells, b \in {NumV(MaxVal)}, c \in PopCells}

PopTables ==
    {Table(PopCols, <<>>)}
    \cup {Table(PopCols, <<r>>) : r \in PopRowsOf({"Austria", "Albania"})}
    \cup {Table(PopCols, <<r1, r2>>) :
            r1 \in PopRowsOf({"Austria"}),
            r2 \in PopRowsOf({"Belgium"}) \cup {PopRow("Austria", NumV(MaxVal), NumV(MaxVal), NumV(0))}}
    \cup {Table({"Country Name", "1990", "2005"},
                <<("Country Name" :> "Austria") @@ ("1990" :> a) @@ ("2005" :> NumV(MaxVal))>>) :
             a \in PopCells}

PopNominal == Table(PopCols, <<PopRow("Austria", NumV(MaxVal), NumV(MaxVal), NumV(0))>>)

\* population tables a stage rejects: no Country Name, a fractional count
PopBadSchemas ==
    {Table({"Country Code", "1990"}, <<("Country Code" :> "AUT") @@ ("1990" :> NumV(0))>>),
     Table({"Country Name", "1990"},
           <<("Country Name" :> "Austria") @@ ("1990" :> Rat(1, 2))>>)}

PipelineInputs ==
    {<<e, PopNominal>> : e \in EmTables}
    \cup {<<EmNominal, q>> : q \in PopTables}
    \cup {<<e, q>> : e \in EmBadSchemas, q \in {PopNominal} \cup PopBadSchemas}
    \cup {<<EmNominal, q>> : q \in PopBadSchemas}

(***************************************************************************)
(* src/run_pipeline.py: one action per statement.                          *)
(***************************************************************************)
NoEnv ==
    [em_raw |-> 0, pop_raw |-> 0, em |-> 0, pop |-> 0, em_long |-> 0,
     pop_long |-> 0, df |-> 0, arg |-> 0, arg2 |-> 0, ret |-> 0, how |-> ""]

NoFile == Table({}, <<>>)

\* em_raw = pd.read_csv(...); pop_raw = pd.read_csv(...)
Init ==
    \E inp \in PipelineInputs :
        /\ pc = "clean_emissions"
        /\ heap = (1 :> inp[1]) @@ (2 :> inp[2])
        /\ env = [NoEnv EXCEPT !.em_raw = 1, !.pop_raw = 2]
        /\ err = NoErr
        /\ outfile = [written |-> FALSE, table |-> NoFile]

\* a statement whose exception is swallowed: the run goes on to the next
\* statement with the name left as it was
StmtKeepGoing(at, nxt, name, res) ==
    /\ pc = at
    /\ heap' = res.heap
    /\ pc' = nxt
    /\ env' = IF res.err = NoErr THEN [env EXCEPT ![name] = res.ref] ELSE env
    /\ err' = res.err
    /\ UNCHANGED outfile

\* name = f(...): on a return the name is bound to the result and the run
\* goes on to the next statement; an exception ends the run
Stmt(at, nxt, name, res) ==
    /\ pc = at
    /\ heap' = res.heap
    /\ IF res.err = NoErr
       THEN pc' = nxt /\ env' = [env EXCEPT ![name] = res.ref] /\ err' = err
       ELSE pc' = "failed" /\ env' = env /\ err' = res.err
    /\ UNCHANGED outfile

CleanEmissions ==
    Stmt("clean_emissions", "clean_population", "em",
         clean_emissions_raw(heap, env.em_raw, DEFAULT_COUNTRY_MAP, TRUE))

CleanPopulation ==
    Stmt("clean_population", "add_total", "pop",
         clean_population_raw(heap, env.pop_raw, DEFAULT_EU_COUNTRIES))

AddTotal ==
    Stmt("add_total", "add_difference", "em",
         add_total_emissions(heap, env.em, YearStart, YearEnd, "total_emissoes"))

\* "diferença_total" in ASCII
AddDifference ==
    Stmt("add_difference", "wide_to_long", "em",
         add_difference_between_years(heap, env.em, 1990, 2023, "diferenca_total"))

id_cols == {"freq", "unit", "airpol", "src_crf", "geo", "country"}

WideToLong ==
    Stmt("wide_to_long", "add_sector_main", "em_long",
         wide_to_long_years(heap, env.em, id_cols, YearStart, YearEnd, "emissions", "year"))

AddSectorMain ==
    Stmt("add_sector_main", "population_wide_to_long", "em_long",
         add_sector_main(heap, env.em_long, "src_crf", "sector_main"))

PopulationWideToLong ==
    Stmt("population_wide_to_long", "merge", "pop_long",
         population_wide_to_long(heap, env.pop, "Country Name", YearStart, YearEnd,
                                 "country", "year", "population"))

Merge ==
    Stmt("merge", "per_capita", "df",
         merge_emissions_population_long(heap, env.em_long, env.pop_long, "inner",
                                         "country", "year"))

PerCapita ==
    Stmt("per_capita", "reduction", "df",
         add_emissions_per_capita(heap, env.df, "emissions", "population",
                                  "emissions_per_capita"))

\* "redução_%_atual" in ASCII
Reduction ==
    Stmt("reduction", "target", "df",
         add_reduction_percent_actual(heap, env.df, 1990, 2023, "country", "year",
                                      "emissions", "reducao_%_atual"))

Target ==
    Stmt("target", "rounding", "df",
         add_target_2030_and_gap(heap, env.df, TargetPct, 1990, "country", "year",
                                 "emissions", "meta_2030", "gap_2030", 2023))

Rounding ==
    Stmt("rounding", "to_csv", "df",
         apply_rounding(heap, env.df,
                        {"emissions", "emissions_per_capita", "gap_2030", "meta_2030"},
                        {"reducao_%_atual"}))

\* df.to_csv("data/processed/merged_dataset.tsv", ...)
ToCsv ==
    /\ pc = "to_csv"
    /\ outfile' = [written |-> TRUE, table |-> heap[env.df]]
    /\ pc' = "done"
    /\ UNCHANGED <<heap, env, err>>

Next ==
    \/ CleanEmissions
    \/ CleanPopulation
    \/ AddTotal
    \/ AddDifference
    \/ WideToLong
    \/ AddSectorMain
    \/ PopulationWideToLong
    \/ Merge
    \/ PerCapita
    \/ Reduction
    \/ Target
    \/ Rounding
    \/ ToCsv

Spec == Init /\ [][Next]_vars

(***************************************************************************)
(* The functions called on their own, on tables drawn from bounded sets.   *)
(***************************************************************************)
\* the sequences of at most n elements of S
SeqsUpTo(S, n) == UNION {[1..k -> S] : k \in 0..n}

CallInit(tables, how) ==
    /\ pc = "call"
    /\ heap = [i \in 1..Len(tables) |-> tables[i]]
    /\ env = [NoEnv EXCEPT !.arg = 1, !.arg2 = IF Len(tables) > 1 THEN 2 ELSE 0, !.how = how]
    /\ err = NoErr
    /\ outfile = [written |-> FALSE, table |-> NoFile]

\* ret = f(arg): the call of a function on the table(s) of the harness
Call(at, nxt, res) ==
    /\ pc = at
    /\ heap' = res.heap
    /\ IF res.err = NoErr
       THEN pc' = nxt /\ env' = [env EXCEPT !.ret = res.ref] /\ err' = err
       ELSE pc' = "raised" /\ env' = env /\ err' = res.err
    /\ UNCHANGED outfile

\* --- the KPI functions of src/calculations.py, one after the other ---
KpiCols == {"country", "year", "emissions", "sector_main"}

KpiRow(c, y, e) ==
    [country |-> c, year |-> NumV(y), emissions |-> e, sector_main |-> "Energia"]

\* rows of Austria at the base, an inner and the current year, rows of
\* Belgium at the base and the current year, a row without a country
KpiRows ==
    {KpiRow("Austria", y, e) : y \in {1990, 2005, 2023}, e \in NumCells \cup {NA}}
    \cup {KpiRow("Belgium", y, e) : y \in {1990, 2023}, e \in {NumV(MaxVal), NA}}
    \cup {KpiRow(NoneStr, 1990, NumV(MaxVal))}

KpiTables == {Table(KpiCols, rows) : rows \in SeqsUpTo(KpiRows, MaxKpiRows)}

InitKpi == \E t \in KpiTables : CallInit(<<t>>, "")

CallReduction ==
    Call("call", "reduced",
         add_reduction_percent_actual(heap, env.arg, 1990, 2023, "country", "year",
                                      "emissions", "reducao_%_atual"))

CallTarget ==
    Call("reduced", "returned",
         add_target_2030_and_gap(heap, env.ret, TargetPct, 1990, "country", "year",
                                 "emissions", "meta_2030", "gap_2030", 2023))

NextKpi == CallReduction \/ CallTarget

SpecKpi == InitKpi /\ [][NextKpi]_vars

\* --- merge_emissions_population_long of src/merge_data.py ---
EmLongCols == {"country", "year", "emissions"}

PopLongCols == {"country", "year", "population"}

EmLongRows ==
    {[country |-> c, year |-> NumV(y), emissions |-> NumV(MaxVal)] :
        c \in {"Austria", "Belgium", NoneStr}, y \in {1990, 2023}}

PopLongRows ==
    {[country |-> c, year |-> NumV(y), population |-> NumV(MaxVal)] :
        c \in {"Austria", NoneStr}, y \in {1990, 2023}}
    \cup {[country |-> "Norway", year |-> NumV(1990), population |-> NumV(0)]}

EmLongTables ==
    {Table(EmLongCols, rows) : rows \in SeqsUpTo(EmLongRows, MaxRows)}
    \cup {Table({"country", "emissions"}, <<[country |-> "Austria", emissions |-> NumV(0)]>>),
          Table({"year", "emissions"}, <<[year |-> NumV(1990), emissions |-> NumV(0)]>>)}

PopLongTables ==
    {Table(PopLongCols, rows) : rows \in SeqsUpTo(PopLongRows, MaxRows)}
    \cup {Table({"country", "population"}, <<[country |-> "Austria", population |-> NumV(0)]>>),
          Table({"year", "population"}, <<[year |-> NumV(1990), population |-> NumV(0)]>>)}

Hows == {"inner", "left", "right", "outer"}

InitMerge ==
    \E e \in EmLongTables, q \in PopLongTables, how \in Hows : CallInit(<<e, q>>, how)

CallMerge ==
    Call("call", "returned",
         merge_emissions_population_long(heap, env.arg, env.arg2, env.how, "country", "year"))

NextMerge == CallMerge

SpecMerge == InitMerge /\ [][NextMerge]_vars

\* --- wide_to_long_years and population_wide_to_long ---
\* the cells of a wide table: numbers, a missing cell, text that is no
\* numeral, a numeral as text, a number that is no integer
WideCells == NumCells \cup {NA, Txt(0), NumTxt(MaxVal), Rat(1, 2)}

\* the year columns a wide table has: the three of the range, two of them,
\* two of them and one before the range, none
WideYearCols == {{"1990", "1991", "1992"}, {"1990", "1992"}, {"1989", "1990", "1992"}, {}}

WideNames == <<"Austria", "Belgium", "Cyprus", "Denmark">>

\* the cells of one row in the columns 1990 and 1992
WidePairs == WideCells \X {NumV(0), NA}

\* the wide tables of at most MaxRows rows with the year columns ys: the
\* id column is unique, the cells of 1990 and 1992 vary
WideTablesOf(ys) ==
    {Table({"Country Name"} \cup ys,
           [i \in 1..k |->
               [c \in {"Country Name"} \cup ys |->
                   IF c = "Country Name" THEN WideNames[i]
                   ELSE IF c = "1990" THEN cells[i][1]
                   ELSE IF c = "1992" THEN cells[i][2]
                   ELSE NumV(i)]]) :
        k \in 0..MaxRows, cells \in [1..MaxRows -> WidePairs]}

WideTables == UNION {WideTablesOf(ys) : ys \in WideYearCols}

InitReshape == \E t \in WideTables : CallInit(<<t>>, "")

CallWideToLong ==
    Call("call", "returned",
         wide_to_long_years(heap, env.arg, {"Country Name"}, YearStart, YearEnd,
                            "emissions", "year"))

CallPopulationWideToLong ==
    Call("call", "returned_population",
         population_wide_to_long(heap, env.arg, "Country Name", YearStart, YearEnd,
                                 "country", "year", "population"))

NextReshape == CallWideToLong \/ CallPopulationWideToLong

SpecReshape == InitReshape /\ [][NextReshape]_vars

(***************************************************************************)
(* The properties of the pipeline, checked under Spec.                     *)
(***************************************************************************)
\* the rows of a table as a set of indices
Idx(t) == 1..Len(t.rows)

\* the statements that follow add_difference_between_years in a run
AfterDifference ==
    {"wide_to_long", "add_sector_main", "population_wide_to_long", "merge",
     "per_capita", "reduction", "target", "rounding", "to_csv", "done"}

\* the statements that follow add_emissions_per_capita
AfterPerCapita == {"reduction", "target", "rounding", "to_csv", "done"}

\* the cell of a raw emissions row under the header of year y
RawCell(r, y) == r[CHOOSE x \in DOMAIN r : Strip(x) = Str(y)]

\* a cell that holds a number, as a number or as a numeral
HoldsNumber(v) == v.k \in {"num", "ntxt"}

\* the five key fields of a raw emissions row, absent trailing fields None
RawKey(r) == [j \in 1..5 |-> IF j <= Len(r[key_col]) THEN r[key_col][j] ELSE NoneStr]

\* the five key fields of a row of a table made from the emissions
OutKey(o) == <<o["freq"], o["unit"], o["airpol"], o["src_crf"], o["geo"]>>

\* C4: emissions_per_capita is emissions divided by population row by row,
\* is never an infinity, and is missing where the population is zero or
\* missing.  (The statement of the claim; the code makes an infinity of a
\* non-zero emissions value over a zero population.)
C4_PerCapitaNeverInfinite ==
    (pc = "reduction") =>
        \A i \in Idx(heap[env.df]) :
            LET r == heap[env.df].rows[i]
                e == r["emissions"]
                q == r["population"]
                v == r["emissions_per_capita"]
            IN  /\ ~IsInf(v)
                /\ (IsNA(q) \/ q = NumV(0)) => IsNA(v)
                /\ (IsNum(e) /\ IsNum(q) /\ q # NumV(0)) =>
                       (IsNum(v) /\ v.n * e.d * q.n = e.n * q.d * v.d)

\* C6: a row of the wide emissions table with a missing cell in a year
\* column has a missing total_emissoes: the missing cell is not summed as
\* zero.  (The statement of the claim; the code sums the cells that are
\* present.)
C6_MissingYearMakesTotalMissing ==
    (pc = "add_difference") =>
        \A i \in Idx(heap[env.em]) :
            LET r == heap[env.em].rows[i]
            IN  (\E y \in {"1990", "2005", "2023"} \cap DOMAIN r : IsNA(r[y]))
                    => IsNA(r["total_emissoes"])

\* C7: for a raw emissions table that has the key column, whose rows have at
\* most five fields in it, the key cleaning does not fail and gives the five
\* columns freq, unit, airpol, src_crf, geo, the fields a row lacks missing.
\* (The statement of the claim; the code fails when no row has five fields.)
C7_SplitNeverFails ==
    LET raw == heap[env.em_raw]
    IN  (/\ pc # "clean_emissions"
         /\ key_col \in raw.cols
         /\ \A i \in Idx(raw) : Len(raw.rows[i][key_col]) <= 5)
        => /\ env.em # 0
           /\ Range(KeyFields) \subseteq heap[3].cols
           /\ \A o \in Range(heap[3].rows) :
                \E i \in Idx(raw) : RawKey(raw.rows[i]) = OutKey(o)

\* C8 (first part): a run whose raw emissions table lacks the key column, or
\* whose population table lacks Country Name, ends at that stage with a
\* ValueError that names the column and the table.
C8_CleaningErrorsNameColumnAndTable ==
    /\ (pc # "clean_emissions" /\ key_col \notin heap[env.em_raw].cols) =>
          /\ pc = "failed"
          /\ env.em = 0
          /\ err.exc = "ValueError"
          /\ {key_col, "emissions raw"} \subseteq Range(err.msg)
    /\ (/\ pc \notin {"clean_emissions", "clean_population"}
        /\ env.em # 0
        /\ "Country Name" \notin {Strip(x) : x \in heap[env.pop_raw].cols}) =>
          /\ pc = "failed"
          /\ env.pop = 0
          /\ err.exc = "ValueError"
          /\ {"Country Name", "population"} \subseteq Range(err.msg)

\* the long table behind reference r without its column k
WithoutColumn(h, r, k) == Put(h, r, SelectCols(h[r], h[r].cols \ {k}))

\* C8 (second part): at the merge stage, a long table without a join key
\* makes the stage raise a ValueError that names the key and the table.
C8_MergeErrorsNameKeyAndTable ==
    (pc = "merge") =>
        \A k \in {"country", "year"} :
            LET he == WithoutColumn(heap, env.em_long, k)
                hp == WithoutColumn(heap, env.pop_long, k)
                re == merge_emissions_population_long(he, env.em_long, env.pop_long,
                                                      "inner", "country", "year")
                rp == merge_emissions_population_long(hp, env.em_long, env.pop_long,
                                                      "inner", "country", "year")
            IN  /\ re.err.exc = "ValueError"
                /\ {"Emissions", k} \subseteq Range(re.err.msg)
                /\ rp.err.exc = "ValueError"
                /\ {"Population", k} \subseteq Range(rp.err.msg)

\* C8: schema errors fail fast: they name the column and the table, no later
\* stage runs after a failure, and the output file is written only by a run
\* all of whose stages returned.
C8_FailFast ==
    /\ C8_CleaningErrorsNameColumnAndTable
    /\ C8_MergeErrorsNameKeyAndTable
    /\ (pc = "failed") => (err # NoErr /\ ~outfile.written /\ ~ENABLED Next)
    /\ (pc # "failed") => err = NoErr
    /\ outfile.written =>
          /\ pc = "done"
          /\ \A f \in {"em", "pop", "em_long", "pop_long", "df"} : env[f] # 0
          /\ outfile.table = heap[env.df]

\* a run stopped by the population table's schema after the emissions were
\* cleaned
C8_Witness ==
    /\ pc = "failed"
    /\ env.em # 0
    /\ "Country Name" \notin heap[env.pop_raw].cols
    /\ "Country Name" \in Range(err.msg)
    /\ ~outfile.written

\* one step of a run leaves every table that exists as it is, and binds a
\* name only to a table that did not exist before
FrameStep ==
    /\ \A r \in DOMAIN heap : r \in DOMAIN heap' /\ heap'[r] = heap[r]
    /\ \A f \in {"em", "pop", "em_long", "pop_long", "df"} :
          env'[f] # env[f] => env'[f] \notin DOMAIN heap

\* C9: every stage leaves the tables it is given unchanged (columns, rows
\* and cells) and returns a new table.
C9_StagesLeaveInputsUnchanged == [][FrameStep]_vars

\* a run in which every stage has returned its table
C9_Witness ==
    /\ pc = "done"
    /\ Cardinality(DOMAIN heap) = 14
    /\ heap[env.df].rows # <<>>
    /\ heap[env.em_raw].cols = EmCols

\* a raw emissions row with a number in both 1990 and 2023
Complete(r) == HoldsNumber(RawCell(r, 1990)) /\ HoldsNumber(RawCell(r, 2023))

\* the tables made from the emissions after add_difference_between_years
Downstream ==
    {heap[env.em]}
    \cup (IF env.em_long # 0 THEN {heap[env.em_long]} ELSE {})
    \cup (IF env.df # 0 THEN {heap[env.df]} ELSE {})
    \cup (IF outfile.written THEN {outfile.table} ELSE {})

\* C10: add_difference_between_years(em, 1990, 2023) drops every series
\* whose 1990 or 2023 value is missing, so no later table and no output row
\* belongs to such a series, and no missing 1990 or 2023 value reaches the
\* KPI stage.
C10_IncompleteSeriesDropped ==
    LET raw == heap[env.em_raw]
    IN  /\ (pc \in AfterDifference) =>
            \A t \in Downstream : \A o \in Range(t.rows) :
                /\ \E i \in Idx(raw) : RawKey(raw.rows[i]) = OutKey(o) /\ Complete(raw.rows[i])
                /\ \A i \in Idx(raw) :
                      (/\ ~Complete(raw.rows[i])
                       /\ \A j \in Idx(raw) \ {i} : RawKey(raw.rows[j]) # RawKey(raw.rows[i]))
                      => RawKey(raw.rows[i]) # OutKey(o)
        /\ (pc \in AfterPerCapita) =>
            \A o \in Range(heap[env.df].rows) :
                o["year"] \in {NumV(1990), NumV(2023)} => IsNum(o["emissions"])

\* a run that wrote rows of one series and dropped the other, whose 1990 or
\* 2023 value is missing
C10_Witness ==
    LET raw == heap[env.em_raw]
    IN  /\ pc = "done"
        /\ Len(raw.rows) = 2
        /\ \E i \in Idx(raw) : ~Complete(raw.rows[i])
        /\ \E o \in Range(outfile.table.rows) : o["year"] = NumV(2005)

(***************************************************************************)
(* The properties of the KPI functions, checked under SpecKpi.             *)
(***************************************************************************)
KpiOutCols == {"reducao_%_atual", "meta_2030", "gap_2030"}

\* the rows of country c at year y
RowsAt(t, c, y) == {i \in Idx(t) : t.rows[i]["country"] = c /\ t.rows[i]["year"] = NumV(y)}

\* the rows I all have a number as emissions
AllPresent(t, I) == \A i \in I : IsNum(t.rows[i]["emissions"])

\* S(y): the sum of the emissions of the rows I, whole numbers in the tables
\* of SpecKpi
RECURSIVE SumOver(_, _)
SumOver(t, I) ==
    IF I = {} THEN 0
    ELSE LET i == CHOOSE x \in I : TRUE
         IN  t.rows[i]["emissions"].n + SumOver(t, I \ {i})

\* the value v is the fraction num/den
IsFraction(v, num, den) == IsNum(v) /\ v.n * den = num * v.d

\* the table R is the table T with the three KPI columns added: the rows,
\* their order and the cells of T's columns are those of T
KpiAddsColumns(T, R) ==
    /\ R.cols = T.cols \cup KpiOutCols
    /\ Len(R.rows) = Len(T.rows)
    /\ \A i \in Idx(T) : \A c \in T.cols : R.rows[i][c] = T.rows[i][c]

\* every row of a country carries the same three values
KpiUniform(R) ==
    \A i, j \in Idx(R) :
        R.rows[i]["country"] = R.rows[j]["country"] =>
            \A c \in KpiOutCols : R.rows[i][c] = R.rows[j][c]

\* the three values of a country with rows, all present, at 1990 and 2023
KpiFormulas(T, R) ==
    \A i \in Idx(R) :
        LET c == R.rows[i]["country"]
            B == RowsAt(T, c, 1990)
            U == RowsAt(T, c, 2023)
            b == SumOver(T, B)
            u == SumOver(T, U)
        IN  (c # NoneStr /\ B # {} /\ U # {} /\ AllPresent(T, B) /\ AllPresent(T, U)) =>
                /\ IsFraction(R.rows[i]["meta_2030"], b * (100 + TargetPct), 100)
                /\ IsFraction(R.rows[i]["gap_2030"], b * (100 + TargetPct) - 100 * u, 100)
                /\ b # 0 => IsFraction(R.rows[i]["reducao_%_atual"], (u - b) * 100, b)

\* C1: the KPI functions add three columns whose values are computed per
\* country and repeated on every row of the country, whatever the row's
\* year: the percent is (S(2023) - S(1990)) / S(1990) * 100, meta_2030 is
\* S(1990) * (1 + pct/100) and gap_2030 is meta_2030 - S(2023), S(y) the sum
\* of the country's emissions at year y.
C1_KpiBroadcastPerCountry ==
    (pc = "returned") =>
        LET T == heap[env.arg]
            R == heap[env.ret]
        IN  KpiAddsColumns(T, R) /\ KpiUniform(R) /\ KpiFormulas(T, R)

\* a country with two rows at 1990 and one at 2023, with a non-zero sum at
\* 1990: the rows of both years carry the values
C1_Witness ==
    /\ pc = "returned"
    /\ LET T == heap[env.arg]
           R == heap[env.ret]
       IN  /\ Cardinality(RowsAt(T, "Austria", 1990)) = 2
           /\ RowsAt(T, "Austria", 2023) # {}
           /\ AllPresent(T, Idx(T))
           /\ SumOver(T, RowsAt(T, "Austria", 1990)) # 0
           /\ \A i \in Idx(R) :
                IsNum(R.rows[i]["reducao_%_atual"]) /\ IsNum(R.rows[i]["gap_2030"])

\* C5 as stated: a country without rows at the base year or without rows at
\* the compare year has all three KPI columns missing on all of its rows.
C5_AllKpiMissingWithoutEitherYear ==
    (pc = "returned") =>
        LET T == heap[env.arg]
            R == heap[env.ret]
        IN  \A i \in Idx(R) :
                LET c == R.rows[i]["country"]
                IN  (c # NoneStr /\ (RowsAt(T, c, 1990) = {} \/ RowsAt(T, c, 2023) = {})) =>
                        \A k \in KpiOutCols : IsNA(R.rows[i][k])

\* C5: the KPI functions do not fail on a country without rows at the base
\* year or at the compare year; the percent and gap_2030 are then missing on
\* all of its rows; meta_2030 is missing when the base year has no rows, and
\* is S(1990) * (1 + pct/100) when only the compare year has none.
C5_KpiMissingFollowsTheYearUsed ==
    /\ pc # "raised"
    /\ (pc = "returned") =>
        LET T == heap[env.arg]
            R == heap[env.ret]
        IN  \A i \in Idx(R) :
                LET c == R.rows[i]["country"]
                    B == RowsAt(T, c, 1990)
                    U == RowsAt(T, c, 2023)
                IN  (c # NoneStr /\ (B = {} \/ U = {})) =>
                        /\ IsNA(R.rows[i]["reducao_%_atual"])
                        /\ IsNA(R.rows[i]["gap_2030"])
                        /\ (B = {}) => IsNA(R.rows[i]["meta_2030"])
                        /\ (B # {} /\ AllPresent(T, B)) =>
                              IsFraction(R.rows[i]["meta_2030"],
                                         SumOver(T, B) * (100 + TargetPct), 100)

\* a country with rows at 1990 and none at 2023, and one with rows at 2023
\* and none at 1990
C5_Witness ==
    /\ pc = "returned"
    /\ LET T == heap[env.arg]
           R == heap[env.ret]
       IN  /\ RowsAt(T, "Austria", 1990) # {} /\ RowsAt(T, "Austria", 2023) = {}
           /\ RowsAt(T, "Belgium", 1990) = {} /\ RowsAt(T, "Belgium", 2023) # {}
           /\ \E i \in Idx(R) :
                /\ R.rows[i]["country"] = "Austria"
                /\ IsNum(R.rows[i]["meta_2030"])
                /\ IsNA(R.rows[i]["gap_2030"])

(***************************************************************************)
(* The properties of the merge, checked under SpecMerge.                   *)
(***************************************************************************)
\* the (country, year) key of a long row
KeyOfRow(r) == <<r["country"], r["year"]>>

KeysOf(t) == {KeyOfRow(t.rows[i]) : i \in Idx(t)}

\* the number of rows of t with key k
CountKey(t, k) == Cardinality({i \in Idx(t) : KeyOfRow(t.rows[i]) = k})

\* the rows of M with key k pair every emissions value of the key in E with
\* every population value of the key in P, a side without the key missing
PairsOf(E, P, M, k) ==
    \A o \in {M.rows[i] : i \in {j \in Idx(M) : KeyOfRow(M.rows[j]) = k}} :
        /\ IF CountKey(E, k) = 0 THEN IsNA(o["emissions"])
           ELSE \E e \in Range(E.rows) : KeyOfRow(e) = k /\ e["emissions"] = o["emissions"]
        /\ IF CountKey(P, k) = 0 THEN IsNA(o["population"])
           ELSE \E q \in Range(P.rows) : KeyOfRow(q) = k /\ q["population"] = o["population"]

\* C2: merging on (country, year), an inner join keeps a key exactly when it
\* occurs in both tables, an outer join keeps every key of either table with
\* the absent side's columns missing, and a key with m rows in one table and
\* n in the other has m * n rows in the result.
C2_MergeKeysAndFanOut ==
    (pc = "returned" /\ env.how \in {"inner", "outer"}) =>
        LET E == heap[env.arg]
            P == heap[env.arg2]
            M == heap[env.ret]
        IN  /\ M.cols = E.cols \cup P.cols
            /\ KeysOf(M) \subseteq KeysOf(E) \cup KeysOf(P)
            /\ \A k \in KeysOf(E) \cup KeysOf(P) :
                  LET m == CountKey(E, k)
                      n == CountKey(P, k)
                  IN  /\ (m > 0 /\ n > 0) => CountKey(M, k) = m * n
                      /\ (m = 0 \/ n = 0) =>
                            CountKey(M, k) = IF env.how = "inner" THEN 0 ELSE m + n
                      /\ PairsOf(E, P, M, k)

\* an outer join with a key of two emissions rows and one population row,
\* which has two rows in the result, and a key of the population only
C2_Witness ==
    /\ pc = "returned"
    /\ env.how = "outer"
    /\ LET E == heap[env.arg]
           P == heap[env.arg2]
           M == heap[env.ret]
       IN  /\ \E k \in KeysOf(E) : CountKey(E, k) = 2 /\ CountKey(P, k) = 1 /\ CountKey(M, k) = 2
           /\ KeysOf(P) \ KeysOf(E) # {}
           /\ \E o \in Range(M.rows) : IsNA(o["emissions"])

(***************************************************************************)
(* The properties of the two reshapes, checked under SpecReshape.          *)
(***************************************************************************)
\* the name of the id, year and value columns of the long table the call at
\* hand returned
LongCountry == IF pc = "returned" THEN "Country Name" ELSE "country"

LongValue == IF pc = "returned" THEN "emissions" ELSE "population"

\* the year columns of the wide table t that lie in the range
InRangeCols(t) == {c \in t.cols : c \in Range(Years(YearStart, YearEnd))}

\* the year a label of digits names
LabelValue(s) == CHOOSE y \in YearStart - 1..YearEnd : Str(y) = s

\* the long value v is the wide cell w, a numeral read as its number
SameValue(v, w) == v = w \/ (w.k = "ntxt" /\ v = NumV(w.n))

\* the long value v is the wide cell w coerced to a number: a number is
\* kept, a numeral is its number, anything else is missing
CoercedValue(v, w) ==
    IF w.k = "num" THEN v = w
    ELSE IF w.k = "ntxt" THEN v = NumV(w.n)
    ELSE IsNA(v)

\* the long rows of the id n and the year of label c
LongRowsOf(L, n, c) ==
    {i \in Idx(L) : L.rows[i][LongCountry] = n /\ L.rows[i]["year"] = NumV(LabelValue(c))}

\* the long table L has exactly one row for every row of the wide table W
\* and every year column of W in the range, and no other row
OneRowPerCell(W, L) ==
    /\ Len(L.rows) = Len(W.rows) * Cardinality(InRangeCols(W))
    /\ \A i \in Idx(W) : \A c \in InRangeCols(W) :
          Cardinality(LongRowsOf(L, W.rows[i]["Country Name"], c)) = 1

\* C3 as stated: for every wide table with unique ids both reshapes return a
\* long table with exactly one row per input row and year column present in
\* the range, the year an integer, the value equal to the wide cell.
C3_ReshapeKeepsEveryCell ==
    /\ pc # "raised"
    /\ (pc \in {"returned", "returned_population"}) =>
        LET W == heap[env.arg]
            L == heap[env.ret]
        IN  /\ OneRowPerCell(W, L)
            /\ \A i \in Idx(W) : \A c \in InRangeCols(W) :
                  \A j \in LongRowsOf(L, W.rows[i]["Country Name"], c) :
                      SameValue(L.rows[j][LongValue], W.rows[i][c])

\* a number that is no integer
Fractional(w) == w.k \in {"num", "ntxt"} /\ w.d # 1

\* some cell of a year column in the range is a fractional number
HasFractional(W) == \E i \in Idx(W) : \E c \in InRangeCols(W) : Fractional(W.rows[i][c])

\* C3: both reshapes return a long table with exactly one row per input row
\* and year column present in the range, the year an integer, the value the
\* wide cell coerced to a number (content that is no number is missing); a
\* year column that is absent gives no rows; population_wide_to_long does so
\* for tables without a fractional number and raises for the others.
C3_ReshapeCoercesEveryCell ==
    /\ (pc = "raised") => (err.exc = "TypeError" /\ HasFractional(heap[env.arg]))
    /\ (pc = "returned_population") => ~HasFractional(heap[env.arg])
    /\ (pc \in {"returned", "returned_population"}) =>
        LET W == heap[env.arg]
            L == heap[env.ret]
        IN  /\ OneRowPerCell(W, L)
            /\ L.cols = {LongCountry, "year", LongValue}
            /\ \A i \in Idx(W) : \A c \in InRangeCols(W) :
                  \A j \in LongRowsOf(L, W.rows[i]["Country Name"], c) :
                      CoercedValue(L.rows[j][LongValue], W.rows[i][c])

\* a table of two rows and two year columns of the range, one column before
\* the range, a cell that is no number and a cell that is missing
C3_Witness ==
    /\ pc = "returned"
    /\ LET W == heap[env.arg]
           L == heap[env.ret]
       IN  /\ Len(W.rows) = 2
           /\ W.cols = {"Country Name", "1989", "1990", "1992"}
           /\ W.rows[1]["1990"] = Txt(0)
           /\ W.rows[2]["1992"] = NA
           /\ Len(L.rows) = 4

====
